---- MODULE Spec2Model ----
(***************************************************************************)
(* Clause-to-Conclusion Engine: the retrieve -> prompt -> decide pipeline  *)
(* of the React application (chunkText, semanticSearch,                    *)
(* getDecisionFromLLM, App.handleSubmit and the handlers around it).       *)
(*                                                                         *)
(* Text is a sequence of one-character strings, so that chunking,          *)
(* lower-casing, whitespace splitting and substring search are computed    *)
(* as the JavaScript computes them.                                        *)
(***************************************************************************)
EXTENDS Integers, Sequences, FiniteSets, TLC

VARIABLES
    chunker,    \* one call of chunkText: its arguments, i, chunks, position
    searcher,   \* one call of semanticSearch: its arguments and result
    apiKey,     \* whether import.meta.env.VITE_GEMINI_API_KEY is set
    call,       \* one call of getDecisionFromLLM followed on its own
    trace,      \* the responses that call has received, in order
    delays,     \* the backoff delays that call has waited for, in order
    documentTexts,  \* App state: the loaded documents, {name, text}
    query,          \* App state: the text of the query input
    status,         \* App state: idle, processing, success, error
    result,         \* App state: null or the Decision shown
    error,          \* App state: the error message shown
    cache,          \* App state: the object mapping a query to its Decision
    runs,           \* the handleSubmit invocations awaiting getDecisionFromLLM
    uploads         \* the handleFileChange invocations awaiting their files

appVars == <<documentTexts, query, status, result, error, cache, runs, uploads>>
vars == <<chunker, searcher, apiKey, call, trace, delays, appVars>>

(***************************************************************************)
(* Bounds of the model.                                                    *)
(***************************************************************************)
MaxTextLen == 4
MaxSize == 3
MaxChunkList == 8
MaxLongList == 3
MaxResponses == 4
MaxRuns == 2
MaxUploads == 1
MaxDocs == 2
LongBodyLen == 1100

(***************************************************************************)
(* Small helpers.                                                          *)
(***************************************************************************)
Min(a, b) == IF a <= b THEN a ELSE b
Max(a, b) == IF a >= b THEN a ELSE b
CeilDiv(a, b) == (a + b - 1) \div b

(***************************************************************************)
(* String primitives of JavaScript used by the program.                    *)
(***************************************************************************)
\* String.prototype.substring(start, end): both indices are clamped to
\* [0, length] and swapped when start > end; indices are 0-based, end exclusive.
substring(text, start, end) ==
    LET n  == Len(text)
        s0 == Max(0, Min(start, n))
        e0 == Max(0, Min(end, n))
        lo == Min(s0, e0)
        hi == Max(s0, e0)
    IN  SubSeq(text, lo + 1, hi)

(***************************************************************************)
(* chunkText(text, chunkSize = 1000, overlap = 100).                       *)
(***************************************************************************)
DefaultChunkSize == 1000
DefaultOverlap == 100

\* The state of one call at loop entry: const chunks = []; let i = 0.
chunkTextEnter(text, chunkSize, overlap) ==
    [text |-> text, chunkSize |-> chunkSize, overlap |-> overlap,
     i |-> 0, chunks |-> <<>>, pc |-> "loop"]

\* A variant that advances by chunkSize, ignoring the overlap.
chunkTextStepNoOverlap(st) ==
    IF st.i < Len(st.text)
    THEN [st EXCEPT !.chunks = Append(@, substring(st.text, st.i, st.i + st.chunkSize)),
                    !.i = @ + st.chunkSize]
    ELSE [st EXCEPT !.pc = "done"]

\* A variant that advances one position past the end of the window.
chunkTextStepGap(st) ==
    IF st.i < Len(st.text)
    THEN [st EXCEPT !.chunks = Append(@, substring(st.text, st.i, st.i + st.chunkSize)),
                    !.i = @ + st.chunkSize + 1]
    ELSE [st EXCEPT !.pc = "done"]

\* One evaluation of the for loop: test i < text.length, then either push
\* text.substring(i, i + chunkSize) and add chunkSize - overlap to i, or leave.
chunkTextStep(st) ==
    IF st.i < Len(st.text)
    THEN [st EXCEPT !.chunks = Append(@, substring(st.text, st.i, st.i + st.chunkSize)),
                    !.i = @ + st.chunkSize - st.overlap]
    ELSE [st EXCEPT !.pc = "done"]

RECURSIVE chunkTextLoop(_)
chunkTextLoop(st) ==
    IF st.pc = "done" THEN st.chunks ELSE chunkTextLoop(chunkTextStep(st))

\* The whole call, for callers that pass a configuration with a positive step.
chunkText(text, chunkSize, overlap) ==
    chunkTextLoop(chunkTextEnter(text, chunkSize, overlap))

(***************************************************************************)
(* More string primitives: toLowerCase, split(/\s+/), includes.            *)
(***************************************************************************)
Range(f) == {f[k] : k \in DOMAIN f}

UpperCase ==
    <<"A", "B", "C", "D", "E", "F", "G", "H", "I", "J", "K", "L", "M",
      "N", "O", "P", "Q", "R", "S", "T", "U", "V", "W", "X", "Y", "Z">>
LowerCase ==
    <<"a", "b", "c", "d", "e", "f", "g", "h", "i", "j", "k", "l", "m",
      "n", "o", "p", "q", "r", "s", "t", "u", "v", "w", "x", "y", "z">>

LowerOf ==
    [c \in Range(UpperCase) |->
        LowerCase[CHOOSE k \in DOMAIN UpperCase : UpperCase[k] = c]]

toLowerChar(c) == IF c \in DOMAIN LowerOf THEN LowerOf[c] ELSE c

\* String.prototype.toLowerCase
toLowerCase(s) == [k \in 1..Len(s) |-> toLowerChar(s[k])]

\* The characters the regular expression \s matches, among those of the model.
IsSpace(c) == c \in {" ", "\n", "\t"}

\* String.prototype.split(/\s+/): the pieces between maximal runs of white
\* space; a leading or trailing run leaves an empty piece at that end, and the
\* empty string splits into one empty piece.
\* The end of the piece that starts at k: the first white space from k on, or
\* Len(s) + 1.
nextSpace(s, k) ==
    CHOOSE e \in k..(Len(s) + 1) :
       /\ (e = Len(s) + 1 \/ IsSpace(s[e]))
       /\ \A j \in k..(e - 1) : ~IsSpace(s[j])

\* A piece starts at position 1 and after every maximal run of white space
\* (at Len(s) + 1, with an empty piece, when the run ends the string).
isPieceStart(s, k) ==
    \/ k = 1
    \/ /\ IsSpace(s[k - 1])
       /\ (k = Len(s) + 1 \/ ~IsSpace(s[k]))

\* The pieces that start at the positions lo..hi, in order (by halving, which
\* keeps the evaluation shallow on long strings).
RECURSIVE piecesIn(_, _, _)
piecesIn(s, lo, hi) ==
    IF lo > hi THEN <<>>
    ELSE IF lo = hi
    THEN IF isPieceStart(s, lo) THEN <<SubSeq(s, lo, nextSpace(s, lo) - 1)>> ELSE <<>>
    ELSE LET mid == (lo + hi) \div 2
         IN  piecesIn(s, lo, mid) \o piecesIn(s, mid + 1, hi)

splitWhitespace(s) == piecesIn(s, 1, Len(s) + 1)

\* String.prototype.includes
includes(s, kw) ==
    \E k \in 0..(Len(s) - Len(kw)) : SubSeq(s, k + 1, k + Len(kw)) = kw

(***************************************************************************)
(* semanticSearch(chunks, query).                                          *)
(***************************************************************************)
KwPayable ==
    <<"p", "a", "y", "a", "b", "l", "e">>
KwCharges ==
    <<"c", "h", "a", "r", "g", "e", "s">>
KwCoveredFor ==
    <<"c", "o", "v", "e", "r", "e", "d", " ", "f", "o", "r">>
KwExcluded ==
    <<"e", "x", "c", "l", "u", "d", "e", "d">>
KwNotPayable ==
    <<"n", "o", "t", " ", "p", "a", "y", "a", "b", "l", "e">>
KwNotCovered ==
    <<"n", "o", "t", " ", "c", "o", "v", "e", "r", "e", "d">>
KwExclusion ==
    <<"e", "x", "c", "l", "u", "s", "i", "o", "n">>
KwAnnexureI ==
    <<"a", "n", "n", "e", "x", "u", "r", "e", " ", "i">>

\* ['payable', 'charges', 'covered for', 'excluded']
ExclusionQueryKeywords == {KwPayable, KwCharges, KwCoveredFor, KwExcluded}
\* ['not payable', 'not covered', 'exclusion', 'annexure i']
ExclusionChunkKeywords == {KwNotPayable, KwNotCovered, KwExclusion, KwAnnexureI}

MinWordLength == 2
ExclusionBoost == 10
ContextSize == 7

\* new Set(lowerQuery.split(/\s+/).filter(w => w.length > 2))
queryWords(lowerQuery) ==
    {w \in Range(splitWhitespace(lowerQuery)) : Len(w) > MinWordLength}

\* new Set(lowerChunk.split(/\s+/))
chunkWords(lowerChunk) == Range(splitWhitespace(lowerChunk))

\* ['payable', ...].some(kw => lowerQuery.includes(kw))
isExclusionQuery(lowerQuery) ==
    \E kw \in ExclusionQueryKeywords : includes(lowerQuery, kw)

\* A variant that adds the boost once for every exclusion-signal phrase found.
scoreChunkPerSignal(chunk, words, exclusionQuery) ==
    LET lowerChunk   == toLowerCase(chunk)
        cw           == chunkWords(lowerChunk)
        intersection == {word \in words : word \in cw}
        signals      == {kw \in ExclusionChunkKeywords : includes(lowerChunk, kw)}
    IN  [chunk |-> chunk,
         score |-> Cardinality(intersection)
                   + (IF exclusionQuery THEN ExclusionBoost * Cardinality(signals) ELSE 0)]

\* The body of chunks.map: the score of one chunk, given what the call
\* computed from the query (its word set and whether it asks about exclusions).
scoreChunk(chunk, words, exclusionQuery) ==
    LET lowerChunk   == toLowerCase(chunk)
        cw           == chunkWords(lowerChunk)
        intersection == {word \in words : word \in cw}
        boosted      == /\ exclusionQuery
                        /\ \E kw \in ExclusionChunkKeywords : includes(lowerChunk, kw)
    IN  [chunk |-> chunk,
         score |-> Cardinality(intersection) + (IF boosted THEN ExclusionBoost ELSE 0)]

\* chunks.map(chunk => ({ chunk, score }))
scoredChunks(chunks, q) ==
    LET lowerQuery     == toLowerCase(q)
        words          == queryWords(lowerQuery)
        exclusionQuery == isExclusionQuery(lowerQuery)
    IN  [k \in 1..Len(chunks) |-> scoreChunk(chunks[k], words, exclusionQuery)]

\* The comparator (a, b) => b.score - a.score
compareScore(a, b) == b.score - a.score

\* A variant that places an item before the items it ties with.
sortInsertBeforeTies(sorted, item) ==
    LET before == Cardinality({k \in 1..Len(sorted) : compareScore(sorted[k], item) < 0})
    IN  SubSeq(sorted, 1, before) \o <<item>> \o SubSeq(sorted, before + 1, Len(sorted))

\* Array.prototype.sort is stable: an item goes after every item that the
\* comparator does not place after it, so ties keep their order of arrival.
sortInsert(sorted, item) ==
    LET before == Cardinality({k \in 1..Len(sorted) : compareScore(sorted[k], item) <= 0})
    IN  SubSeq(sorted, 1, before) \o <<item>> \o SubSeq(sorted, before + 1, Len(sorted))

RECURSIVE sortFrom(_, _, _)
sortFrom(items, k, sorted) ==
    IF k > Len(items) THEN sorted
    ELSE sortFrom(items, k + 1, sortInsert(sorted, items[k]))

\* scoredChunks.sort((a, b) => b.score - a.score)
sortByScore(items) == sortFrom(items, 1, <<>>)

\* .sort(...).slice(0, 7).map(item => item.chunk)
semanticSearch(chunks, q) ==
    LET sorted == sortByScore(scoredChunks(chunks, q))
        top    == SubSeq(sorted, 1, Min(ContextSize, Len(sorted)))
    IN  [k \in 1..Len(top) |-> top[k].chunk]

(***************************************************************************)
(* Values exchanged with the remote model.                                 *)
(*                                                                         *)
(* A JavaScript value is a record with a type tag; a Decision-like object  *)
(* carries the fields the program reads. amount_payable is itself tagged:  *)
(* a number, a string that is no number, or absent.                        *)
(***************************************************************************)
AmountNumber(n) == [k |-> "number", n |-> n]
AmountString == [k |-> "string", n |-> 0]
AmountAbsent == [k |-> "absent", n |-> 0]

JsObject(decision, amount) ==
    [t |-> "object", decision |-> decision, amount_payable |-> amount]
JsNull == [t |-> "null", decision |-> "", amount_payable |-> AmountAbsent]
JsUndefined == [t |-> "undefined", decision |-> "", amount_payable |-> AmountAbsent]

\* The truthiness JavaScript gives a value in a condition.
Truthy(v) == v.t \notin {"null", "undefined"}

\* The text of a candidate: either JSON text, with the value it denotes, or
\* text that is not JSON.
JsonText(v) == [json |-> TRUE, value |-> v]
NotJsonText == [json |-> FALSE, value |-> JsUndefined]

\* JSON.parse(rawText): the value, or a SyntaxError.
JSONparse(rawText) ==
    IF rawText.json THEN [threw |-> FALSE, value |-> rawText.value]
    ELSE [threw |-> TRUE, value |-> JsUndefined]

\* What one fetch can end in: status 0 stands for a rejected fetch (no
\* response at all); candidates holds the texts of result.candidates.
Response(st, candidates, body) ==
    [status |-> st, candidates |-> candidates, body |-> body]
NetworkFailure == Response(0, <<>>, "")
responseOk(resp) == resp.status >= 200 /\ resp.status <= 299

\* Error objects, by their message; the request error interpolates the
\* status and the body into its message, the file errors the file's name.
ErrorOf(message) == [message |-> message, status |-> 0, body |-> "", name |-> <<>>]
NoError == ErrorOf("")
ErrApiKey == ErrorOf("API key not found. Please ensure you have a .env file in the project root with the line: VITE_GEMINI_API_KEY=YOUR_KEY_HERE")
ErrInvalidResponse == ErrorOf("Received an invalid response from the AI. Please try again.")
ErrNoContent == ErrorOf("No content received from API.")
ErrOverloaded == ErrorOf("API is overloaded. Please try again later.")
ErrFailedToFetch == ErrorOf("Failed to fetch")
ErrRequestFailed(st, body) ==
    [message |-> "API request failed with status", status |-> st, body |-> body,
     name |-> <<>>]

(***************************************************************************)
(* getDecisionFromLLM(query, contextChunks): the API key check and the     *)
(* retry loop. A call is at "fetch" while a request is awaiting its        *)
(* response, at "sleep" while the backoff timer runs, and ends "returned"  *)
(* or "threw".                                                             *)
(***************************************************************************)
maxAttempts == 3

CallIdle ==
    [pc |-> "idle", attempts |-> 0, delay |-> 0,
     value |-> JsUndefined, error |-> NoError]

\* A variant whose loop condition is attempts < maxAttempts - 1.
loopHeadOneShort(c) ==
    IF c.attempts < maxAttempts - 1
    THEN [c EXCEPT !.pc = "fetch"]
    ELSE [c EXCEPT !.pc = "returned", !.value = JsUndefined]

\* The loop's head, while (attempts < maxAttempts): the body starts by
\* sending a request (fetch); leaving the loop ends the async function without
\* a return value.
loopHead(c) ==
    IF c.attempts < maxAttempts
    THEN [c EXCEPT !.pc = "fetch"]
    ELSE [c EXCEPT !.pc = "returned", !.value = JsUndefined]

\* A variant whose catch block never rethrows.
catchErrorNeverRethrows(c, err) == loopHead(c)

\* catch (error) { console.error(...); if (attempts >= maxAttempts - 1) throw error; }
\* and, when it does not throw, the loop goes round again.
catchError(c, err) ==
    IF c.attempts >= maxAttempts - 1
    THEN [c EXCEPT !.pc = "threw", !.error = err]
    ELSE loopHead(c)

\* A variant without the check of the API key.
callEnterNoKeyCheck(key) == loopHead(CallIdle)

\* The call up to its first await.
callEnter(key) ==
    IF ~key THEN [CallIdle EXCEPT !.pc = "threw", !.error = ErrApiKey]
    ELSE loopHead(CallIdle)

\* A variant that gives up only once attempts exceeds maxAttempts.
onResponseLateExhaustion(c, resp) ==
    IF resp.status = 0 THEN catchError(c, ErrFailedToFetch)
    ELSE IF responseOk(resp)
    THEN IF Len(resp.candidates) > 0
         THEN LET parsed == JSONparse(resp.candidates[1])
              IN  IF parsed.threw THEN catchError(c, ErrInvalidResponse)
                  ELSE [c EXCEPT !.pc = "returned", !.value = parsed.value]
         ELSE catchError(c, ErrNoContent)
    ELSE IF resp.status = 429 \/ resp.status = 503
    THEN LET c1 == [c EXCEPT !.attempts = @ + 1]
         IN  IF c1.attempts > maxAttempts THEN catchError(c1, ErrOverloaded)
             ELSE [c1 EXCEPT !.pc = "sleep", !.delay = (2 ^ c1.attempts) * 1000]
    ELSE catchError(c, ErrRequestFailed(resp.status, resp.body))

\* A variant whose first delay is 2^0 seconds.
onResponseBackoffFromZero(c, resp) ==
    IF resp.status = 0 THEN catchError(c, ErrFailedToFetch)
    ELSE IF responseOk(resp)
    THEN IF Len(resp.candidates) > 0
         THEN LET parsed == JSONparse(resp.candidates[1])
              IN  IF parsed.threw THEN catchError(c, ErrInvalidResponse)
                  ELSE [c EXCEPT !.pc = "returned", !.value = parsed.value]
         ELSE catchError(c, ErrNoContent)
    ELSE IF resp.status = 429 \/ resp.status = 503
    THEN LET c1 == [c EXCEPT !.attempts = @ + 1]
         IN  IF c1.attempts >= maxAttempts THEN catchError(c1, ErrOverloaded)
             ELSE [c1 EXCEPT !.pc = "sleep", !.delay = (2 ^ c.attempts) * 1000]
    ELSE catchError(c, ErrRequestFailed(resp.status, resp.body))

\* The body of try, from the settled fetch to the next await or the end.
onResponse(c, resp) ==
    IF resp.status = 0 THEN catchError(c, ErrFailedToFetch)
    ELSE IF responseOk(resp)
    THEN IF Len(resp.candidates) > 0
         THEN LET parsed == JSONparse(resp.candidates[1])
              IN  IF parsed.threw THEN catchError(c, ErrInvalidResponse)
                  ELSE [c EXCEPT !.pc = "returned", !.value = parsed.value]
         ELSE catchError(c, ErrNoContent)
    ELSE IF resp.status = 429 \/ resp.status = 503
    THEN LET c1 == [c EXCEPT !.attempts = @ + 1]
         IN  IF c1.attempts >= maxAttempts THEN catchError(c1, ErrOverloaded)
             ELSE [c1 EXCEPT !.pc = "sleep", !.delay = (2 ^ c1.attempts) * 1000]
    ELSE catchError(c, ErrRequestFailed(resp.status, resp.body))

\* The backoff timer fires: continue.
onTimer(c) == loopHead(c)

(***************************************************************************)
(* The endpoint's behaviours the model draws from.                         *)
(***************************************************************************)
DecisionApproved == JsObject("Approved", AmountNumber(100))
DecisionNegative == JsObject("Approved (Partial)", AmountNumber(-5))
DecisionNoAmount == JsObject("Rejected", AmountAbsent)

\* The values a reply can denote in a run of the App, and the further ones
\* followed for a call on its own.
ReplyValues == {DecisionApproved, DecisionNegative, JsNull}
ClientReplyValues == ReplyValues \cup {DecisionNoAmount}

Responses ==
    {Response(200, <<JsonText(v)>>, "") : v \in ReplyValues}
    \cup {Response(200, <<NotJsonText>>, "")}
    \cup {Response(503, <<>>, "busy")}
    \cup {Response(400, <<>>, "refused")}
ClientResponses ==
    Responses
    \cup {NetworkFailure}
    \cup {Response(200, <<JsonText(v)>>, "") : v \in ClientReplyValues}
    \cup {Response(200, <<>>, "")}
    \cup {Response(429, <<>>, "busy")}
    \cup {Response(500, <<>>, "failed")}

(***************************************************************************)
(* The App component: its state and what its handlers compute.             *)
(***************************************************************************)
ErrValidation == ErrorOf("Please provide at least one document and a query.")
ErrUnknown == ErrorOf("An unknown error occurred.")
\* `${file.name} is not a valid PDF.` and `Failed to read ${file.name}.`
ErrNotPdf(name) ==
    [message |-> "is not a valid PDF.", status |-> 0, body |-> "", name |-> name]
ErrReadFailed(name) ==
    [message |-> "Failed to read", status |-> 0, body |-> "", name |-> name]

\* err.message || 'An unknown error occurred.'
messageOf(err) == IF err.message = "" THEN ErrUnknown ELSE err

\* A file of the file input: its name, its MIME type, the text of its pages.
File(name, type, fullText) == [name |-> name, type |-> type, fullText |-> fullText]
NameA ==
    <<"a", ".", "p", "d", "f">>
NameB ==
    <<"b", ".", "p", "d", "f">>
NameT ==
    <<"n", ".", "t", "x", "t">>

SourceOpen ==
    <<"[", "S", "o", "u", "r", "c", "e", ":", " ">>
SourceClose ==
    <<"]", "\n">>
ParagraphBreak ==
    <<"\n", "\n">>

\* resolve({ name: file.name, text: `[Source: ${file.name}]\n` + fullText })
resolvedDocument(file) ==
    [name |-> file.name, text |-> SourceOpen \o file.name \o SourceClose \o file.fullText]

\* documentTexts.map(doc => doc.text).join('\n\n')
RECURSIVE joinTexts(_, _)
joinTexts(docs, k) ==
    IF k > Len(docs) THEN <<>>
    ELSE IF k = Len(docs) THEN docs[k].text
    ELSE docs[k].text \o ParagraphBreak \o joinTexts(docs, k + 1)

combinedText(docs) == joinTexts(docs, 1)

\* The cache is a plain object created by {}: a key it does not own is looked
\* up on Object.prototype, whose members are functions.
KeyConstructor ==
    <<"c", "o", "n", "s", "t", "r", "u", "c", "t", "o", "r">>
KeyToString ==
    <<"t", "o", "S", "t", "r", "i", "n", "g">>
ObjectPrototypeKeys == {KeyConstructor, KeyToString}
JsFunction == [t |-> "function", decision |-> "", amount_payable |-> AmountAbsent]

EmptyCache == [q \in {} |-> JsNull]

\* cache[query]
cacheLookup(c, q) ==
    IF q \in DOMAIN c THEN c[q]
    ELSE IF q \in ObjectPrototypeKeys THEN JsFunction
    ELSE JsUndefined

\* A variant that keeps only the new entry.
cachePutAlone(c, q, decision) ==
    [k \in {q} |-> decision]

\* prevCache => ({ ...prevCache, [query]: decision })
cachePut(c, q, decision) ==
    [k \in (DOMAIN c) \cup {q} |-> IF k = q THEN decision ELSE c[k]]

\* if (cache[query])
cacheHit(c, q) == Truthy(cacheLookup(c, q))

\* if (!combinedText || !query)
submitInvalid(docs, q) == combinedText(docs) = <<>> \/ q = <<>>

\* The chunks a run puts into its prompt: chunkText(combinedText), then
\* semanticSearch(chunks, query).
contextChunksOf(docs, q) ==
    semanticSearch(chunkText(combinedText(docs), DefaultChunkSize, DefaultOverlap), q)

\* The pipeline of one run up to its await, ending in
\* getDecisionFromLLM(query, contextChunks). A run keeps the query it was
\* started with and the state of its call; of the prompt it sent, the number
\* of context chunks.
startRun(docs, q, key) ==
    [query |-> q, contextSize |-> Len(contextChunksOf(docs, q)), call |-> callEnter(key)]

RemoveAt(seq, i) == SubSeq(seq, 1, i - 1) \o SubSeq(seq, i + 1, Len(seq))
Last(seq) == seq[Len(seq)]

(***************************************************************************)
(* Specification SpecChunk: one call of chunkText on inputs drawn from     *)
(* bounded sets, executed one loop evaluation at a time.                   *)
(***************************************************************************)
ChunkAlphabet == {"a", "b"}
ChunkTexts == UNION {[1..k -> ChunkAlphabet] : k \in 0..MaxTextLen}
\* The loop of a call with overlap >= chunkSize never ends; the model stops
\* following it after this many chunks.
MaxChunks == MaxTextLen + 2

SearchIdle == [chunks |-> <<>>, query |-> <<>>, out |-> <<>>, pc |-> "idle"]
ChunkIdle == [text |-> <<>>, chunkSize |-> DefaultChunkSize, overlap |-> DefaultOverlap,
              i |-> 0, chunks |-> <<>>, pc |-> "idle"]
ClientIdle == call = CallIdle /\ trace = <<>> /\ delays = <<>>
clientVars == <<call, trace, delays>>
AppIdle ==
    /\ apiKey = TRUE
    /\ documentTexts = <<>>
    /\ query = <<>>
    /\ status = "idle"
    /\ result = JsNull
    /\ error = NoError
    /\ cache = EmptyCache
    /\ runs = <<>>
    /\ uploads = <<>>

ChunkInit ==
    /\ \E text \in ChunkTexts, size \in 1..MaxSize, overlap \in 0..MaxSize :
          chunker = chunkTextEnter(text, size, overlap)
    /\ searcher = SearchIdle
    /\ ClientIdle
    /\ AppIdle

ChunkIter ==
    /\ chunker.pc = "loop"
    /\ Len(chunker.chunks) < MaxChunks
    /\ chunker' = chunkTextStep(chunker)
    /\ UNCHANGED <<searcher, clientVars, apiKey, appVars>>

ChunkNext == ChunkIter

SpecChunk == ChunkInit /\ [][ChunkNext]_vars

(***************************************************************************)
(* Claims about chunkText, checked under SpecChunk.                        *)
(***************************************************************************)
ChunkConfigInvalid == chunker.overlap >= chunker.chunkSize /\ Len(chunker.text) > 0
ChunkConfigValid == chunker.chunkSize > chunker.overlap /\ chunker.overlap >= 0

\* C8 (as claimed): a call with overlap >= chunkSize on a non-empty text fails
\* fast with a configuration error: it never enters the loop's body, so it
\* emits no chunk at all.
C8_FailsFast ==
    ChunkConfigInvalid => chunker.chunks = <<>>

\* C9 (as claimed): when the call is done, the number of chunks is
\* ceil(max(0, len - overlap) / (size - overlap)), and a text with
\* 0 < len <= size gives exactly one chunk.
C9_CountAsClaimed ==
    (chunker.pc = "done" /\ ChunkConfigValid) =>
        /\ Len(chunker.chunks) =
              CeilDiv(Max(0, Len(chunker.text) - chunker.overlap),
                      chunker.chunkSize - chunker.overlap)
        /\ (0 < Len(chunker.text) /\ Len(chunker.text) <= chunker.chunkSize)
              => Len(chunker.chunks) = 1

\* C9 (amended): when the call is done, the number of chunks is
\* ceil(len / (size - overlap)): one chunk per start offset below len; a text
\* with 0 < len <= size - overlap gives exactly one chunk.
C9_ChunkCount ==
    (chunker.pc = "done" /\ ChunkConfigValid) =>
        /\ Len(chunker.chunks) =
              CeilDiv(Len(chunker.text), chunker.chunkSize - chunker.overlap)
        /\ (0 < Len(chunker.text)
            /\ Len(chunker.text) <= chunker.chunkSize - chunker.overlap)
              => Len(chunker.chunks) = 1

\* C9 witness: a finished call with a positive overlap whose text fits in one
\* window and that still emitted a second chunk.
C9_Witness ==
    /\ chunker.pc = "done"
    /\ ChunkConfigValid
    /\ chunker.overlap > 0
    /\ Len(chunker.text) <= chunker.chunkSize
    /\ Len(chunker.chunks) = 2

\* C20: when a call with size > overlap >= 0 is done, its i-th chunk (counted
\* from 0) is text[i*(size-overlap) .. i*(size-overlap)+size), cut at the end
\* of the text, so chunks come in document order; every character position of
\* the text lies in a chunk, which holds that character there; and the empty
\* text gives no chunk.
C20_Coverage ==
    (chunker.pc = "done" /\ ChunkConfigValid) =>
        LET step == chunker.chunkSize - chunker.overlap
            n    == Len(chunker.text)
            out  == chunker.chunks
        IN  /\ \A i \in 1..Len(out) :
                  out[i] = SubSeq(chunker.text, (i - 1) * step + 1,
                                  Min((i - 1) * step + chunker.chunkSize, n))
            /\ \A p \in 1..n : \E i \in 1..Len(out) :
                  /\ (i - 1) * step < p
                  /\ p <= (i - 1) * step + Len(out[i])
                  /\ out[i][p - (i - 1) * step] = chunker.text[p]
            /\ (n = 0 => out = <<>>)

\* C20 witness: a finished call with an overlap that gave at least three
\* chunks, the last one shorter than the window, on a text of both letters.
C20_Witness ==
    /\ chunker.pc = "done"
    /\ ChunkConfigValid
    /\ chunker.overlap > 0
    /\ Len(chunker.chunks) >= 3
    /\ Len(Last(chunker.chunks)) < chunker.chunkSize
    /\ Range(chunker.text) = ChunkAlphabet

(***************************************************************************)
(* Specification SpecSearch: one call of semanticSearch on a chunk list    *)
(* and a query drawn from bounded sets.                                    *)
(***************************************************************************)
QueryPlain ==
    <<"K", "n", "e", "e", " ", "s", "u", "r", "g", "e", "r", "y">>
QueryPayable ==
    <<"i", "s", " ", "k", "i", "t", " ", "p", "a", "y", "a", "b", "l", "e">>
QueryShort ==
    <<"i", "s", " ", "i", "t", " ", "o", "k">>
QueryKitFee ==
    <<"k", "i", "t", " ", "f", "e", "e">>
ChunkKnee ==
    <<"k", "n", "e", "e", " ", "s", "u", "r", "g", "e", "r", "y", " ", "k", "i", "t">>
ChunkAnnexure ==
    <<"A", "n", "n", "e", "x", "u", "r", "e", " ", "I", " ", "l", "i", "s", "t">>
ChunkNotPayable ==
    <<"k", "i", "t", " ", "i", "s", " ", "n", "o", "t", " ", "p", "a", "y", "a", "b", "l", "e">>

\* A payability query of eleven words longer than two characters, and a chunk
\* that holds every one of them and no exclusion-signal phrase.
QueryManyWords ==
    <<"a", "r", "e", " ", "t", "h", "e", " ", "k", "i", "t", " ", "b", "a", "g", " ", "c", "a", "p", " ", "p", "e", "n", " ", "c", "u", "p", " ", "m", "u", "g", " ", "j", "a", "r", " ", "b", "o", "x", " ", "p", "a", "y", "a", "b", "l", "e">>
ChunkManyWords ==
    <<"t", "h", "e", " ", "k", "i", "t", " ", "b", "a", "g", " ", "c", "a", "p", " ", "p", "e", "n", " ", "c", "u", "p", " ", "m", "u", "g", " ", "j", "a", "r", " ", "b", "o", "x", " ", "a", "r", "e", " ", "p", "a", "y", "a", "b", "l", "e", " ", "h", "e", "r", "e">>

SearchQueries == {QueryPlain, QueryPayable, QueryShort}
SearchChunks == {ChunkKnee, ChunkAnnexure, ChunkNotPayable}
SearchChunkLists == UNION {[1..n -> SearchChunks] : n \in 0..MaxChunkList}
\* Short lists that may also hold the chunk of many words, for every query.
\* A query and a chunk that repeat a token, in different case; the chunk holds
\* two exclusion-signal phrases.
QueryRepeats ==
    <<"K", "i", "t", " ", "k", "i", "t", " ", " ", "p", "a", "y", "a", "b", "l", "e", " ", "c", "h", "a", "r", "g", "e", "s">>
ChunkRepeats ==
    <<"k", "i", "t", " ", "K", "I", "T", " ", "n", "o", "t", " ", "p", "a", "y", "a", "b", "l", "e", " ", "e", "x", "c", "l", "u", "s", "i", "o", "n", " ", "k", "i", "t">>
LongQueries == SearchQueries \cup {QueryManyWords, QueryRepeats}
LongChunks == SearchChunks \cup {ChunkManyWords, ChunkRepeats}
LongChunkLists == UNION {[1..n -> LongChunks] : n \in 0..MaxLongList}
SearchInputs ==
    (SearchChunkLists \X SearchQueries) \cup (LongChunkLists \X LongQueries)

SearchInit ==
    /\ \E in \in SearchInputs :
          searcher = [chunks |-> in[1], query |-> in[2], out |-> <<>>, pc |-> "call"]
    /\ chunker = ChunkIdle
    /\ ClientIdle
    /\ AppIdle

SearchCall ==
    /\ searcher.pc = "call"
    /\ searcher' = [searcher EXCEPT !.out = semanticSearch(searcher.chunks, searcher.query),
                                    !.pc = "returned"]
    /\ UNCHANGED <<chunker, clientVars, apiKey, appVars>>

SearchNext == SearchCall

SpecSearch == SearchInit /\ [][SearchNext]_vars

(***************************************************************************)
(* Claims about semanticSearch, checked under SpecSearch.                  *)
(***************************************************************************)
\* The place of item k in the ranking by score descending with ties in input
\* order: one more than the number of items that go before it.
RankOf(items, k) ==
    1 + Cardinality({j \in 1..Len(items) :
                        \/ items[j].score > items[k].score
                        \/ items[j].score = items[k].score /\ j < k})

\* C10: semanticSearch returns exactly the first min(7, n) entries of the
\* chunks ordered by score descending, equal scores in input order; when every
\* score is 0 that is the first min(7, n) chunks in input order.
C10_Ranking ==
    searcher.pc = "returned" =>
        LET items == scoredChunks(searcher.chunks, searcher.query)
            n     == Len(searcher.chunks)
        IN  /\ Len(searcher.out) = Min(7, n)
            /\ \A k \in 1..n :
                  RankOf(items, k) <= 7 => searcher.out[RankOf(items, k)] = searcher.chunks[k]
            /\ (\A k \in 1..n : items[k].score = 0)
                  => searcher.out = SubSeq(searcher.chunks, 1, Min(7, n))

\* C10 witness: a search over more than 7 chunks whose result is not a prefix
\* of the input and in which two different chunks tie and both are returned.
C10_Witness ==
    /\ searcher.pc = "returned"
    /\ Len(searcher.chunks) > 7
    /\ searcher.out # SubSeq(searcher.chunks, 1, 7)
    /\ LET items == scoredChunks(searcher.chunks, searcher.query)
       IN  \E j, k \in 1..Len(items) :
              /\ j < k
              /\ items[j].score = items[k].score
              /\ items[j].chunk # items[k].chunk
              /\ RankOf(items, k) <= 7

\* The chunk holds an exclusion-signal phrase (compared in lower case).
hasSignal(chunk) ==
    \E kw \in ExclusionChunkKeywords : includes(toLowerCase(chunk), kw)

\* C11 (as claimed): for a query that holds a trigger phrase, no chunk without
\* an exclusion-signal phrase is returned ahead of a chunk with one, and no
\* chunk with one is left out while a chunk without one is returned, however
\* many query words each chunk matches.
C11_BoostOutranks ==
    (searcher.pc = "returned" /\ isExclusionQuery(toLowerCase(searcher.query))) =>
        LET out == searcher.out
            signalsIn(seq) == Cardinality({k \in 1..Len(seq) : hasSignal(seq[k])})
        IN  /\ \A p, r \in 1..Len(out) :
                  (p < r /\ hasSignal(out[r])) => hasSignal(out[p])
            /\ (\E p \in 1..Len(out) : ~hasSignal(out[p]))
                  => signalsIn(out) = signalsIn(searcher.chunks)

\* The tokens of s: its maximal runs of characters that are not white space.
Tokens(s) ==
    LET starts == {i \in 1..Len(s) : ~IsSpace(s[i]) /\ (i = 1 \/ IsSpace(s[i - 1]))}
        endOf(i) == CHOOSE j \in i..Len(s) :
                       /\ \A k \in i..j : ~IsSpace(s[k])
                       /\ (j = Len(s) \/ IsSpace(s[j + 1]))
    IN  {SubSeq(s, i, endOf(i)) : i \in starts}

\* The score the claim describes: the number of distinct lower-case query
\* tokens longer than 2 that are among the chunk's lower-case tokens, plus 10
\* when the query holds a trigger phrase and the chunk a signal phrase.
ClaimedScore(chunk, q) ==
    LET qt == {w \in Tokens(toLowerCase(q)) : Len(w) > 2}
        ct == Tokens(toLowerCase(chunk))
    IN  Cardinality(qt \cap ct)
        + (IF isExclusionQuery(toLowerCase(q)) /\ hasSignal(chunk) THEN 10 ELSE 0)

\* C21: the score semanticSearch gives every chunk is the number of distinct
\* lower-case query tokens longer than 2 found among the chunk's lower-case
\* tokens, plus exactly 10 for a trigger query and a chunk with at least one
\* signal phrase; repeated tokens and several signal phrases count once.
C21_Score ==
    searcher.pc = "returned" =>
        LET items == scoredChunks(searcher.chunks, searcher.query)
        IN  \A c \in Range(searcher.chunks) :
               LET expected == ClaimedScore(c, searcher.query)
               IN  \A k \in 1..Len(items) :
                      searcher.chunks[k] = c
                         => (items[k].chunk = c /\ items[k].score = expected)

\* C21 witness: the query and the chunk that repeat the token kit; the chunk
\* holds two signal phrases and its score is 2 + 10.
C21_Witness ==
    /\ searcher.pc = "returned"
    /\ searcher.query = QueryRepeats
    /\ Len(searcher.chunks) > 0
    /\ searcher.chunks[1] = ChunkRepeats
    /\ searcher.out[1] = ChunkRepeats
    /\ scoredChunks(searcher.chunks, searcher.query)[1].score = 12

(***************************************************************************)
(* Specification SpecContext: the context handleSubmit builds for one      *)
(* query from loaded documents, some of them longer than one chunk:        *)
(* chunkText(combinedText) with its default sizes, then semanticSearch.    *)
(***************************************************************************)
\* The text of a PDF of n characters: the words of BodyWords over and over.
BodyWords ==
    <<"k", "i", "t", " ", "f", "e", "e", " ">>
BodyOf(n) == [k \in 1..n |-> BodyWords[((k - 1) % Len(BodyWords)) + 1]]

\* The lengths of the bodies: short ones, one that with its tag just fits a
\* chunk, and ones past the chunk size.
BodyLengths == {8, 40, DefaultChunkSize - 100, LongBodyLen, LongBodyLen + DefaultChunkSize}
ContextNames == <<NameA, NameB>>
ContextDocs ==
    UNION {[1..n -> BodyLengths] : n \in 1..MaxDocs}
ContextQueries == {QueryPlain, QueryPayable, QueryShort, QueryKitFee}

ContextInit ==
    /\ \E lens \in ContextDocs :
          documentTexts =
             [k \in 1..Len(lens) |->
                 resolvedDocument(File(ContextNames[((k - 1) % Len(ContextNames)) + 1],
                                       "application/pdf", BodyOf(lens[k])))]
    /\ query \in ContextQueries
    /\ searcher = SearchIdle
    /\ chunker = ChunkIdle
    /\ ClientIdle
    /\ apiKey = TRUE
    /\ status = "idle"
    /\ result = JsNull
    /\ error = NoError
    /\ cache = EmptyCache
    /\ runs = <<>>
    /\ uploads = <<>>

\* const chunks = chunkText(combinedText);
\* const contextChunks = semanticSearch(chunks, query);
ContextBuild ==
    /\ searcher.pc = "idle"
    /\ LET chunks == chunkText(combinedText(documentTexts), DefaultChunkSize, DefaultOverlap)
       IN  searcher' = [chunks |-> chunks, query |-> query,
                        out |-> semanticSearch(chunks, query), pc |-> "returned"]
    /\ UNCHANGED <<chunker, clientVars, apiKey, appVars>>

ContextNext == ContextBuild

SpecContext == ContextInit /\ [][ContextNext]_vars

\* The tag handleFileChange puts before the text of the document of that name.
SourceTag(name) == SourceOpen \o name \o <<"]">>

\* C25 (as claimed): every chunk of the context passed to getDecisionFromLLM
\* contains the [Source: name] tag of a loaded document.
C25_EveryChunkTagged ==
    searcher.pc = "returned" =>
        \A k \in 1..Len(searcher.out) :
           \E d \in 1..Len(documentTexts) :
              includes(searcher.out[k], SourceTag(documentTexts[d].name))

(***************************************************************************)
(* Specification SpecClient: one call of getDecisionFromLLM against an     *)
(* endpoint that may answer each request in any of the ways of Responses.  *)
(***************************************************************************)
ClientInit ==
    /\ apiKey \in BOOLEAN
    /\ call = CallIdle
    /\ trace = <<>>
    /\ delays = <<>>
    /\ chunker = ChunkIdle
    /\ searcher = SearchIdle
    /\ documentTexts = <<>>
    /\ query = <<>>
    /\ status = "idle"
    /\ result = JsNull
    /\ error = NoError
    /\ cache = EmptyCache
    /\ runs = <<>>
    /\ uploads = <<>>

ClientEnter ==
    /\ call.pc = "idle"
    /\ call' = callEnter(apiKey)
    /\ UNCHANGED <<apiKey, trace, delays, chunker, searcher, appVars>>

\* The model follows a call for at most MaxResponses responses.
ClientRespond ==
    /\ call.pc = "fetch"
    /\ Len(trace) < MaxResponses
    /\ \E resp \in ClientResponses :
          /\ call' = onResponse(call, resp)
          /\ trace' = Append(trace, resp)
    /\ delays' = IF call'.pc = "sleep" THEN Append(delays, call'.delay) ELSE delays
    /\ UNCHANGED <<apiKey, chunker, searcher, appVars>>

\* setTimeout(res, delay) fires.
ClientTimer ==
    /\ call.pc = "sleep"
    /\ call' = onTimer(call)
    /\ UNCHANGED <<apiKey, trace, delays, chunker, searcher, appVars>>

ClientNext == ClientEnter \/ ClientRespond \/ ClientTimer

SpecClient == ClientInit /\ [][ClientNext]_vars

(***************************************************************************)
(* Claims about getDecisionFromLLM, checked under SpecClient.              *)
(***************************************************************************)
IsValidReply(resp) ==
    /\ responseOk(resp)
    /\ Len(resp.candidates) > 0
    /\ resp.candidates[1].json
IsMalformedReply(resp) ==
    /\ responseOk(resp)
    /\ Len(resp.candidates) > 0
    /\ ~resp.candidates[1].json
IsFatalStatus(resp) ==
    /\ resp.status # 0
    /\ ~responseOk(resp)
    /\ resp.status \notin {429, 503}
\* The requests the call has sent: one per response received, and the one
\* whose response is awaited.
RequestsSent == Len(trace) + (IF call.pc = "fetch" THEN 1 ELSE 0)
\* The first n responses of the call were all 503.
Leading503(n) ==
    /\ Len(trace) >= n
    /\ \A k \in 1..n : trace[k].status = 503

\* C2 (as claimed): after three 503 responses in a row the call is still
\* going, having started its third backoff delay; a valid 200 as the fourth
\* response makes it return that Decision after exactly 3 delays, and a fourth
\* 503 makes it fail with the exhaustion error.
C2_RetryAsClaimed ==
    /\ (Len(trace) = 3 /\ Leading503(3))
          => (call.pc \in {"sleep", "fetch"} /\ Len(delays) = 3)
    /\ (Len(trace) = 4 /\ Leading503(3) /\ IsValidReply(trace[4]))
          => /\ call.pc = "returned"
             /\ call.value = trace[4].candidates[1].value
             /\ Len(delays) = 3
    /\ (Len(trace) = 4 /\ Leading503(4))
          => (call.pc = "threw" /\ call.error = ErrOverloaded)

\* C2 (amended): after two 503 responses in a row, a valid 200 as the third
\* response makes the call return that Decision after exactly 2 backoff delays
\* and 3 requests; a third 503 instead makes it fail with the exhaustion
\* error, after 2 delays and without a fourth request.
C2_RetryScenario ==
    /\ (Len(trace) = 3 /\ Leading503(2) /\ IsValidReply(trace[3]))
          => /\ call.pc = "returned"
             /\ call.value = trace[3].candidates[1].value
             /\ delays = <<2000, 4000>>
             /\ RequestsSent = 3
    /\ (Len(trace) = 3 /\ Leading503(3))
          => /\ call.pc = "threw"
             /\ call.error = ErrOverloaded
             /\ delays = <<2000, 4000>>
             /\ RequestsSent = 3

\* C2 witness: a call that returned a Decision on its third request, after
\* two 503 responses.
C2_Witness ==
    /\ Len(trace) = 3
    /\ Leading503(2)
    /\ IsValidReply(trace[3])
    /\ call.pc = "returned"
    /\ call.value = DecisionApproved

\* C3 (as claimed): a non-2xx response that is neither 429 nor 503 ends the
\* call at once: it has thrown the request error with that status and body,
\* and no request was sent after the response.
C3_FatalStatusImmediate ==
    (trace # <<>> /\ IsFatalStatus(Last(trace)))
        => /\ call.pc = "threw"
           /\ call.error = ErrRequestFailed(Last(trace).status, Last(trace).body)
           /\ RequestsSent = Len(trace)

\* C4 (as claimed): one call sends at most 3 requests.
C4_AtMostThreeRequests ==
    RequestsSent <= 3

\* C6 (as claimed): a 2xx response whose candidate text is not JSON ends the
\* call at once with the malformed-response error and no further request, and
\* a call that received such a response never returns a value.
C6_MalformedImmediate ==
    /\ (trace # <<>> /\ IsMalformedReply(Last(trace)))
          => /\ call.pc = "threw"
             /\ call.error = ErrInvalidResponse
             /\ RequestsSent = Len(trace)
    /\ (\E k \in 1..Len(trace) : IsMalformedReply(trace[k]))
          => call.pc # "returned"

IsRetryable(resp) == resp.status \in {429, 503}
\* The number of 429/503 responses the call has received.
RetryableCount == Cardinality({k \in 1..Len(trace) : IsRetryable(trace[k])})

\* C15: the delay waited after the k-th 429/503 response is 2^k seconds (in
\* milliseconds here); there are exactly as many delays as 429/503 responses
\* short of the third, which exhausts the attempts; the call is waiting for a
\* delay only right after a 429/503 response that did not exhaust the
\* attempts, and has then not ended; after any other response no delay is
\* added.
C15_BackoffSchedule ==
    /\ Len(delays) = Min(RetryableCount, 2)
    /\ \A k \in 1..Len(delays) : delays[k] = (2 ^ k) * 1000
    /\ call.pc = "sleep" =>
          /\ trace # <<>>
          /\ IsRetryable(Last(trace))
          /\ RetryableCount < 3
          /\ call.delay = Last(delays)
    /\ (trace # <<>> /\ IsRetryable(Last(trace)) /\ RetryableCount < 3) =>
          call.pc \in {"sleep", "fetch"}
    /\ (trace # <<>> /\ IsRetryable(Last(trace)) /\ RetryableCount >= 3) =>
          call.pc = "threw"

\* C15 witness: the call is waiting for its second delay, of 4 seconds, after
\* a 503, a swallowed 400 and a 429.
C15_Witness ==
    /\ Len(trace) = 3
    /\ IsRetryable(trace[1])
    /\ IsFatalStatus(trace[2])
    /\ IsRetryable(trace[3])
    /\ call.pc = "sleep"
    /\ delays = <<2000, 4000>>

\* C16: while every response received was 429 or 503, the call has not
\* returned and has sent at most 3 requests; it goes on after the first and
\* the second response and, at the third, has failed with the error saying the
\* API is overloaded; it has failed with no other error.
C16_Exhaustion ==
    (trace # <<>> /\ \A k \in 1..Len(trace) : IsRetryable(trace[k])) =>
        /\ call.pc # "returned"
        /\ Len(trace) <= 3
        /\ RequestsSent <= 3
        /\ Len(trace) < 3 => call.pc \in {"sleep", "fetch"}
        /\ Len(trace) = 3 => call.pc = "threw"
        /\ call.pc = "threw" => call.error = ErrOverloaded

\* C16 witness: a call that failed with the overload error at its third
\* response, after a 429, a 503 and a 429.
C16_Witness ==
    /\ Len(trace) = 3
    /\ trace[1].status = 429
    /\ trace[2].status = 503
    /\ trace[3].status = 429
    /\ call.pc = "threw"
    /\ call.error = ErrOverloaded
    /\ RequestsSent = 3

\* C26: a call that has returned has returned the value parsed from the text
\* of its last response, a 2xx response with a candidate, and that value is
\* not undefined; a call that goes on (a request or a delay pending) has
\* attempts < maxAttempts, so the loop's condition never ends the loop; and a
\* call that has ended otherwise has thrown an error with a message.
C26_NoFallThrough ==
    /\ call.pc = "returned" =>
          /\ trace # <<>>
          /\ IsValidReply(Last(trace))
          /\ call.value = JSONparse(Last(trace).candidates[1]).value
          /\ call.value # JsUndefined
    /\ call.pc \in {"fetch", "sleep"} => call.attempts < 3
    /\ call.pc = "threw" => call.error.message # ""

\* C26 witness: a call that returned the parsed reply of its third request,
\* after a 503 with its delay and a swallowed failure.
C26_Witness ==
    /\ call.pc = "returned"
    /\ Len(trace) = 3
    /\ IsRetryable(trace[1])
    /\ ~IsRetryable(trace[2])
    /\ call.value = DecisionNoAmount
    /\ call.attempts = 1

(***************************************************************************)
(* Specification Spec: the App component under every interleaving of its   *)
(* events (typing a query, choosing files, submitting, Try Again) with the *)
(* completions of its pending file reads and remote calls.                 *)
(***************************************************************************)
QueryBlank ==
    <<" ">>

FileA == File(NameA, "application/pdf", ChunkKnee)
FileB == File(NameB, "application/pdf", ChunkNotPayable)
FileT == File(NameT, "text/plain", <<>>)

\* What the file input can deliver, and what the query input can hold: the
\* empty string, a blank, a question, and the name of a member of
\* Object.prototype.
FileSelections == {<<>>, <<FileA>>, <<FileA, FileB>>, <<FileT>>}
Queries == {<<>>, QueryBlank, QueryPayable, KeyConstructor}

Init ==
    /\ apiKey \in BOOLEAN
    /\ documentTexts = <<>>
    /\ query = <<>>
    /\ status = "idle"
    /\ result = JsNull
    /\ error = NoError
    /\ cache = EmptyCache
    /\ runs = <<>>
    /\ uploads = <<>>
    /\ chunker = ChunkIdle
    /\ searcher = SearchIdle
    /\ ClientIdle

otherVars == <<chunker, searcher, apiKey, call, trace, delays>>

\* onChange of the query input: setQuery(e.target.value)
setQuery ==
    /\ \E q \in Queries : q # query /\ query' = q
    /\ UNCHANGED <<documentTexts, status, result, error, cache, runs, uploads,
                   otherVars>>

\* handleFileChange up to its await: nothing for an empty selection; otherwise
\* the state is reset and the files are read. A file that is no PDF rejects at
\* once, and the catch block reports the first such file.
handleFileChange ==
    /\ \E files \in FileSelections :
          IF Len(files) = 0
          THEN UNCHANGED <<status, error, result, uploads>>
          ELSE IF \E k \in 1..Len(files) : files[k].type # "application/pdf"
          THEN LET k == CHOOSE j \in 1..Len(files) :
                           /\ files[j].type # "application/pdf"
                           /\ \A h \in 1..(j - 1) : files[h].type = "application/pdf"
               IN  /\ result' = JsNull
                   /\ error' = messageOf(ErrNotPdf(files[k].name))
                   /\ status' = "error"
                   /\ UNCHANGED uploads
          ELSE /\ Len(uploads) < MaxUploads
               /\ status' = "processing"
               /\ error' = NoError
               /\ result' = JsNull
               /\ uploads' = Append(uploads, files)
    /\ UNCHANGED <<documentTexts, query, cache, runs, otherVars>>

\* Every file of a pending handleFileChange was read:
\* setDocumentTexts(allTexts); setStatus('idle').
filesLoaded ==
    /\ \E u \in 1..Len(uploads) :
          /\ documentTexts' = [k \in 1..Len(uploads[u]) |-> resolvedDocument(uploads[u][k])]
          /\ uploads' = RemoveAt(uploads, u)
    /\ status' = "idle"
    /\ UNCHANGED <<query, result, error, cache, runs, otherVars>>

\* reader.onerror for a file of a pending handleFileChange.
fileReadFailed ==
    /\ \E u \in 1..Len(uploads) : \E k \in 1..Len(uploads[u]) :
          /\ error' = messageOf(ErrReadFailed(uploads[u][k].name))
          /\ uploads' = RemoveAt(uploads, u)
    /\ status' = "error"
    /\ UNCHANGED <<documentTexts, query, result, cache, runs, otherVars>>

\* A variant that also stores an entry for a run that failed.
finishRunCachesFailure(run) ==
    IF run.call.pc = "returned"
    THEN /\ cache' = cachePut(cache, run.query, run.call.value)
         /\ result' = run.call.value
         /\ status' = "success"
         /\ UNCHANGED error
    ELSE /\ error' = messageOf(run.call.error)
         /\ status' = "error"
         /\ cache' = cachePut(cache, run.query, JsNull)
         /\ UNCHANGED result

\* What the end of a run's call does to the App: the statements after the
\* await, or the catch block. setCache is given a function of the previous
\* cache, so the entry is added to the cache of that moment.
finishRun(run) ==
    IF run.call.pc = "returned"
    THEN /\ cache' = cachePut(cache, run.query, run.call.value)
         /\ result' = run.call.value
         /\ status' = "success"
         /\ UNCHANGED error
    ELSE /\ error' = messageOf(run.call.error)
         /\ status' = "error"
         /\ UNCHANGED <<cache, result>>

\* handleSubmit up to its first await. The submit button is disabled while
\* status is 'processing'.
handleSubmit ==
    /\ status # "processing"
    /\ IF submitInvalid(documentTexts, query)
       THEN /\ error' = ErrValidation
            /\ status' = "error"
            /\ UNCHANGED <<result, cache, runs>>
       ELSE IF cacheHit(cache, query)
       THEN /\ result' = cacheLookup(cache, query)
            /\ status' = "success"
            /\ UNCHANGED <<error, cache, runs>>
       ELSE LET run == startRun(documentTexts, query, apiKey)
            IN  IF run.call.pc \in {"returned", "threw"}
                THEN /\ result' = JsNull
                     /\ error' = messageOf(run.call.error)
                     /\ status' = "error"
                     /\ UNCHANGED <<cache, runs>>
                ELSE /\ Len(runs) < MaxRuns
                     /\ status' = "processing"
                     /\ error' = NoError
                     /\ result' = JsNull
                     /\ runs' = Append(runs, run)
                     /\ UNCHANGED cache
    /\ UNCHANGED <<documentTexts, query, uploads, otherVars>>

\* The response to the pending request of run r arrives; when that ends the
\* call, handleSubmit resumes in the same turn.
runResponseOf(r, resp) ==
    /\ runs[r].call.pc = "fetch"
    /\ LET run == [runs[r] EXCEPT !.call = onResponse(runs[r].call, resp)]
       IN  IF run.call.pc \in {"returned", "threw"}
           THEN /\ finishRun(run)
                /\ runs' = RemoveAt(runs, r)
           ELSE /\ runs' = [runs EXCEPT ![r] = run]
                /\ UNCHANGED <<cache, result, status, error>>
    /\ UNCHANGED <<documentTexts, query, uploads, otherVars>>

runResponse ==
    \E r \in 1..Len(runs) : \E resp \in Responses : runResponseOf(r, resp)

\* The backoff timer of run r fires.
runTimer ==
    /\ \E r \in 1..Len(runs) :
          /\ runs[r].call.pc = "sleep"
          /\ LET run == [runs[r] EXCEPT !.call = onTimer(runs[r].call)]
             IN  IF run.call.pc \in {"returned", "threw"}
                 THEN /\ finishRun(run)
                      /\ runs' = RemoveAt(runs, r)
                 ELSE /\ runs' = [runs EXCEPT ![r] = run]
                      /\ UNCHANGED <<cache, result, status, error>>
    /\ UNCHANGED <<documentTexts, query, uploads, otherVars>>

\* A variant of Try Again that also clears the result.
handleRetryClearsResult ==
    /\ status = "error"
    /\ status' = "idle"
    /\ error' = NoError
    /\ result' = JsNull
    /\ UNCHANGED <<documentTexts, query, cache, runs, uploads, otherVars>>

\* Try Again, shown while status is 'error'.
handleRetry ==
    /\ status = "error"
    /\ status' = "idle"
    /\ error' = NoError
    /\ UNCHANGED <<documentTexts, query, result, cache, runs, uploads, otherVars>>

Next ==
    \/ setQuery
    \/ handleFileChange
    \/ filesLoaded
    \/ fileReadFailed
    \/ handleSubmit
    \/ runResponse
    \/ runTimer
    \/ handleRetry

Spec == Init /\ [][Next]_vars

\* Spec with what the runtime guarantees: a timer that was set fires, and a
\* file read that was started ends. Nothing is assumed of the endpoint, which
\* may never answer, nor of the user.
FairSpec ==
    /\ Spec
    /\ WF_vars(runTimer)
    /\ WF_vars(filesLoaded \/ fileReadFailed)

(***************************************************************************)
(* Claims about the pipeline of the App, checked under Spec.               *)
(***************************************************************************)
\* A query that is empty or holds white space only.
IsBlank(q) == \A k \in 1..Len(q) : IsSpace(q[k])

\* A Decision object whose amount_payable is a finite number >= 0.
AmountIsValid(v) ==
    v.t = "object" => (v.amount_payable.k = "number" /\ v.amount_payable.n >= 0)

\* C1 (as claimed): once a run of a query (one that is not blank) has
\* succeeded and stored its Decision, whatever its value, a further submit of
\* that query shows exactly the stored Decision and starts no run (so no
\* further remote call), leaving the cache as it is.
C1_SecondRunFromCache ==
    [][(/\ handleSubmit
        /\ documentTexts # <<>>
        /\ ~IsBlank(query)
        /\ query \in DOMAIN cache)
          => /\ result' = cache[query]
             /\ status' = "success"
             /\ runs' = runs
             /\ cache' = cache]_vars

\* C5 (as claimed): a submit with no documents, with an empty query or with a
\* query of white space only ends in the error state with the validation
\* message, changes no cache entry and starts no run (so sends no request).
C5_ValidationFirst ==
    [][(/\ handleSubmit
        /\ (documentTexts = <<>> \/ query = <<>> \/ IsBlank(query)))
          => /\ status' = "error"
             /\ error' = ErrValidation
             /\ cache' = cache
             /\ runs' = runs]_vars

\* C7 (as claimed): every Decision held in the cache or shown as the result
\* has an amount_payable that is a finite number >= 0.
C7_AmountNonNegative ==
    /\ \A q \in DOMAIN cache : AmountIsValid(cache[q])
    /\ AmountIsValid(result)

\* C12 (as claimed): when the call of a run (of a query that is not blank)
\* fails, that run ends with status
\* 'error' and the message of the call's error, with result null and with the
\* cache left as it was.
C12_FailurePropagates ==
    [][\A r \in 1..Len(runs) : \A resp \in Responses :
          (/\ runResponseOf(r, resp)
           /\ onResponse(runs[r].call, resp).pc = "threw"
           /\ ~IsBlank(runs[r].query))
             => /\ status' = "error"
                /\ error' = onResponse(runs[r].call, resp).error
                /\ result' = JsNull
                /\ cache' = cache]_vars

\* C13: no step removes a cache entry; a step changes the cache only when it
\* is the successful end of a run, and then the entry of that run's query is
\* the Decision the call returned and every other entry is as before; choosing
\* files, loading them, a failed read and Try Again leave the cache as it is.
C13_CachePermanence ==
    [][/\ \A q \in DOMAIN cache : q \in DOMAIN cache'
       /\ (cache' # cache) =>
             \E r \in 1..Len(runs) : \E resp \in Responses :
                LET c == onResponse(runs[r].call, resp)
                IN  /\ runResponseOf(r, resp)
                    /\ c.pc = "returned"
                    /\ DOMAIN cache' = (DOMAIN cache) \cup {runs[r].query}
                    /\ cache'[runs[r].query] = c.value
                    /\ \A q \in (DOMAIN cache) \ {runs[r].query} : cache'[q] = cache[q]
       /\ (handleFileChange \/ filesLoaded \/ fileReadFailed \/ handleRetry)
             => cache' = cache]_vars

\* C13 witness: a Decision stored for a query is still in the cache after the
\* documents were replaced by two others and a later run failed.
C13_Witness ==
    /\ QueryPayable \in DOMAIN cache
    /\ cache[QueryPayable] = DecisionApproved
    /\ Len(documentTexts) = 2
    /\ status = "error"
    /\ error = ErrRequestFailed(400, "refused")

\* C14: when a run succeeds while a run for another query is in flight, or
\* after a run for another query has stored its entry, the cache afterwards
\* holds this run's Decision under this run's query, every entry of another
\* query exactly as it was, and the other runs are still in flight.
C14_NoLostUpdate ==
    [][\A r \in 1..Len(runs) : \A resp \in Responses :
          LET c == onResponse(runs[r].call, resp)
              q == runs[r].query
          IN  (/\ runResponseOf(r, resp)
               /\ c.pc = "returned"
               /\ \/ \E o \in 1..Len(runs) : runs[o].query # q
                  \/ \E k \in DOMAIN cache : k # q)
                => /\ q \in DOMAIN cache'
                   /\ cache'[q] = c.value
                   /\ \A k \in (DOMAIN cache) \ {q} :
                         k \in DOMAIN cache' /\ cache'[k] = cache[k]
                   /\ runs' = RemoveAt(runs, r)]_vars

\* C14 witness: two different Decisions are stored under two different queries
\* while a run is still awaiting its reply.
C14_Witness ==
    /\ Len(runs) = 1
    /\ runs[1].call.pc = "fetch"
    /\ DOMAIN cache = {QueryBlank, QueryPayable}
    /\ cache[QueryBlank] = DecisionNegative
    /\ cache[QueryPayable] = DecisionApproved
    /\ status = "success"

\* C17: without an API key no run ever awaits a request (so there is no
\* request, retry or delay), and a submit that passes validation and misses
\* the cache ends at once in status 'error' with the configuration error,
\* result null and the cache unchanged.
C17_ConfigurationError ==
    [][~apiKey =>
          /\ runs = <<>>
          /\ runs' = <<>>
          /\ (/\ handleSubmit
              /\ ~submitInvalid(documentTexts, query)
              /\ ~cacheHit(cache, query))
                => /\ status' = "error"
                   /\ error' = ErrApiKey
                   /\ result' = JsNull
                   /\ cache' = cache]_vars

\* C17 witness: with no API key and documents loaded, a submit has ended in
\* the configuration error.
C17_Witness ==
    /\ ~apiKey
    /\ documentTexts # <<>>
    /\ query = QueryPayable
    /\ status = "error"
    /\ error = ErrApiKey
    /\ runs = <<>>
    /\ cache = EmptyCache

\* A value that is a Decision object: a decision among the four allowed and
\* a numeric amount_payable (the model carries no justification or clauses).
DecisionValues == {"Approved", "Rejected", "Approved (Partial)", "More Information Required"}
IsDecisionObject(v) ==
    /\ v.t = "object"
    /\ v.decision \in DecisionValues
    /\ v.amount_payable.k = "number"

\* C19 (as claimed): every value a run has stored in the cache (and so every
\* value a run has set as the result) is a Decision object.
C19_SchemaChecked ==
    \A q \in DOMAIN cache : IsDecisionObject(cache[q])

\* C18 (as claimed): the App does not stay in status 'processing' forever on
\* account of a run awaiting its remote call: from a state in status
\* 'processing' with a run in flight and no file read pending, the status
\* eventually leaves 'processing'.
C18_HardTimeout ==
    (status = "processing" /\ runs # <<>> /\ uploads = <<>>) ~> (status # "processing")

\* C22 (as claimed): while a run is awaiting getDecisionFromLLM, status is
\* 'processing', and at most one run is doing so.
C22_SingleFlight ==
    /\ runs # <<>> => status = "processing"
    /\ Len(runs) <= 1

\* C23 (as claimed): a reply that ends, with success, a run submitted before a
\* run of another query that is still in flight does not replace what is
\* shown: it changes neither the result nor the status.
C23_LatestSubmitShown ==
    [][\A r \in 1..Len(runs) : \A resp \in Responses :
          (/\ runResponseOf(r, resp)
           /\ onResponse(runs[r].call, resp).pc = "returned"
           /\ r < Len(runs)
           /\ runs[Len(runs)].query # runs[r].query)
             => /\ result' = result
                /\ status' = status]_vars

\* C24 (as claimed): a submit that passes validation with a query under which
\* no run has stored a Decision is not answered from the cache: it does not
\* end in status 'success', it shows no result, and with an API key it starts
\* a run.
C24_CacheHitsReal ==
    [][(/\ handleSubmit
        /\ ~submitInvalid(documentTexts, query)
        /\ query \notin DOMAIN cache)
          => /\ status' # "success"
             /\ result' = JsNull
             /\ apiKey => runs' = Append(runs, startRun(documentTexts, query, apiKey))]_vars

\* C27: Try Again sets status to 'idle' and clears the error message, and
\* leaves the loaded documents, the query, the result and the cache as they
\* were; the status it leaves enables the submit button.
C27_TryAgainFrame ==
    [][handleRetry
          => /\ status' = "idle"
             /\ error' = NoError
             /\ documentTexts' = documentTexts
             /\ query' = query
             /\ result' = result
             /\ cache' = cache
             /\ status' # "processing"]_vars

\* C27 witness: status is 'idle' while a file read is still pending, which
\* only Try Again brings about, and a result and a cache entry are still there.
C27_Witness ==
    /\ status = "idle"
    /\ error = NoError
    /\ uploads # <<>>
    /\ result # JsNull
    /\ cache # EmptyCache
    /\ documentTexts # <<>>

====
